---- MODULE Spec2Model ----
(***************************************************************************)
(* Model of the MKL-DNN pooling operator of MXNet                          *)
(* (src/operator/nn/mkldnn/mkldnn_pooling.cc): the full-convention padding *)
(* calculator, the derivation of the effective pooling geometry in the     *)
(* forward resolve, the forward primitive descriptor and the backward      *)
(* resolve, the per-thread executor caches, and the forward and backward   *)
(* execution entry points.                                                 *)
(***************************************************************************)
EXTENDS Integers, Sequences, FiniteSets, TLC

VARIABLES
    call,          \* the arguments of the call in progress / last made
    ret,           \* what that call returned or how it ended
    pooling_fwds,  \* per thread: signature -> forward executor  (thread_local map)
    pooling_bwds,  \* per thread: signature -> backward executor (thread_local map)
    built          \* per thread: the executor constructions so far, <<cache, key, id>>

vars == <<call, ret, pooling_fwds, pooling_bwds, built>>

(***************************************************************************)
(* Bounds of the model.                                                    *)
(***************************************************************************)
\* the padding calculator on its own
PadMaxX      == 4
PadMaxPad    == 2
PadMaxKernel == 5
PadMaxStride == 4
\* the geometry derivations
MaxExtent    == 2
MaxKernel    == 2
MaxStride    == 2
MaxPad       == 1
\* the caches: executor constructions (all threads together) in one run
MaxBuilds    == 2

(***************************************************************************)
(* C++ integer arithmetic.                                                 *)
(***************************************************************************)
\* a % b of C++ on int: the quotient truncates toward zero, so the
\* remainder has the sign of the dividend.
CRem(a, b) == IF a >= 0 THEN a % b ELSE -((-a) % b)

(***************************************************************************)
(* Padding calculator.                                                     *)
(***************************************************************************)
\* The calculator without the stride rounding: the trailing padding is left
\* as configured.
GetPaddingSizeFull_NoRound(x, padl, padr, k, s) == padr

\* The calculator with the remainder subtracted from the padding alone.
GetPaddingSizeFull_NoStride(x, padl, padr, k, s) ==
    IF CRem(x + padl + padr - k, s) # 0
    THEN padr + CRem(x + padl + padr - k, s)
    ELSE padr

GetPaddingSizeFull(x, padl, padr, k, s) ==
    IF CRem(x + padl + padr - k, s) # 0
    THEN padr + s - CRem(x + padl + padr - k, s)
    ELSE padr

(***************************************************************************)
(* Parameters, tensors and errors.                                         *)
(***************************************************************************)
kMaxPooling == "kMaxPooling"
kAvgPooling == "kAvgPooling"
kSumPooling == "kSumPooling"
kValid == "kValid"
kFull  == "kFull"

\* mkldnn::algorithm. pooling_avg is the library's alias of
\* pooling_avg_exclude_padding (mkldnn_types.h of MKL-DNN 1.0).
pooling_max == "pooling_max"
pooling_avg_include_padding == "pooling_avg_include_padding"
pooling_avg_exclude_padding == "pooling_avg_exclude_padding"
pooling_avg == pooling_avg_exclude_padding

forward_training == "forward_training"
forward_scoring  == "forward_scoring"

\* OpReqType
kNullOp  == "kNullOp"
kWriteTo == "kWriteTo"

\* LOG(FATAL) and a failed CHECK end the enclosing operation with the message.
Fatal(msg) == [status |-> "fatal", msg |-> msg]

ConfigurationMsgs ==
    {"MKLDNN Pooling: algorithm is not supported",
     "Not Implemented",
     "Filter dimensions cannot be zero.",
     "Padding implemented only for average and max pooling.",
     "Check failed: pad_l_ < kernel_w_",
     "Check failed: pad_t_ < kernel_h_",
     "MKLDNN Pooling: Unknown pooling method."}

ErrorKind(msg) ==
    IF msg \in ConfigurationMsgs THEN "ConfigurationError"
    ELSE IF msg = "MKLDNN Pooling: incorrect workspace input" THEN "MissingResourceError"
    ELSE "InternalInvariantError"

\* A tensor is modelled by what the operator reads of it: its shape
\* (N, C, H, W), element type and physical layout tag.
NDArray(n, c, h, w, format) ==
    [shape |-> <<n, c, h, w>>, dtype |-> "f32", format |-> format]

\* NDArray::GetMKLDNNData()->get_desc()
GetDesc(arr) == [dims |-> arr.shape, data_type |-> arr.dtype, format |-> arr.format]

IsMKLDNNData(arr) == arr.format # "nchw"
Reorder2Default(arr) == [arr EXCEPT !.format = "nchw"]

\* workspace-required: max pooling keeps the index of each maximum.
MKLDNNRequireWorkspace(param) == param.pool_type = kMaxPooling

(***************************************************************************)
(* Algorithm and propagation kind.                                         *)
(***************************************************************************)
GetMKLDNNPoolAlgo(param) ==
    CASE param.pool_type = kMaxPooling -> [status |-> "ok", alg |-> pooling_max]
      [] param.pool_type = kAvgPooling ->
            IF param.count_include_pad # "none" /\ param.count_include_pad = "false"
            THEN [status |-> "ok", alg |-> pooling_avg_exclude_padding]
            ELSE [status |-> "ok", alg |-> pooling_avg_include_padding]
      [] OTHER -> Fatal("MKLDNN Pooling: Unknown pooling method.")

\* MKLDNNPoolingFwd::Init, lines 55-58
InitPropKind(is_train, alg_kind) ==
    IF is_train /\ alg_kind # pooling_avg THEN forward_training ELSE forward_scoring

\* GetPoolingFwdPdesc, lines 178-181
PdescPropKind(is_train, alg) ==
    IF is_train /\ alg # pooling_avg THEN forward_training ELSE forward_scoring

\* MKLDNNPoolingFwd::Init: the forward primitive descriptor and primitive
\* built from the geometry handed in.
MKLDNNPoolingFwd_Init(input, output, kernel_h, kernel_w, stride_h, stride_w, padding_t, padding_b, padding_l, padding_r, is_train, alg_kind) ==
    LET src_md == GetDesc(input)
        dst_md == [dims |-> <<src_md.dims[1], src_md.dims[2],
                              output.shape[3], output.shape[4]>>,
                   data_type |-> src_md.data_type, format |-> "any"]
    IN  IF /\ alg_kind # pooling_max
           /\ alg_kind # pooling_avg
           /\ alg_kind # pooling_avg_include_padding
           /\ alg_kind # pooling_avg_exclude_padding
        THEN Fatal("MKLDNN Pooling: algorithm is not supported")
        ELSE [status  |-> "ok",
              fwd_pd_ |-> [prop    |-> InitPropKind(is_train, alg_kind),
                           alg     |-> alg_kind,
                           src_md  |-> src_md,
                           dst_md  |-> dst_md,
                           strides |-> <<stride_h, stride_w>>,
                           kernel  |-> <<kernel_h, kernel_w>>,
                           pad_l   |-> <<padding_t, padding_l>>,
                           pad_r   |-> <<padding_b, padding_r>>],
              fwd_    |-> TRUE,
              logged  |-> (is_train /\ InitPropKind(is_train, alg_kind) = forward_scoring)]

(***************************************************************************)
(* The forward primitive descriptor (the hint of the backward pass).       *)
(***************************************************************************)
\* lines 142-149: the effective kernel
PdescKernel(param, data_md) ==
    IF param.global_pool
    THEN [kernel_h_ |-> data_md.dims[3], kernel_w_ |-> data_md.dims[4]]
    ELSE [kernel_h_ |-> param.kernel[1], kernel_w_ |-> param.kernel[2]]

\* lines 154-161: paddings and strides as configured; under the full
\* convention the trailing paddings come from the calculator
PdescPadding(param, data_md, kernel) ==
    LET pad_t_ == param.pad[1]
        pad_b_ == param.pad[1]
        pad_l_ == param.pad[2]
        pad_r_ == param.pad[2]
        stride_h_ == param.stride[1]
        stride_w_ == param.stride[2]
    IN  [pad_t_ |-> pad_t_,
         pad_b_ |-> IF param.pooling_convention = kFull
                    THEN GetPaddingSizeFull(data_md.dims[3], pad_t_, pad_b_,
                                            kernel.kernel_h_, stride_h_)
                    ELSE pad_b_,
         pad_l_ |-> pad_l_,
         pad_r_ |-> IF param.pooling_convention = kFull
                    THEN GetPaddingSizeFull(data_md.dims[4], pad_l_, pad_r_,
                                            kernel.kernel_w_, stride_w_)
                    ELSE pad_r_,
         stride_h_ |-> stride_h_,
         stride_w_ |-> stride_w_]

\* The global-pooling reset left out.
PdescGlobalPool_Skip(param, g) == g

\* lines 164-167: global pooling has no padding and stride 1
PdescGlobalPool(param, g) ==
    IF param.global_pool
    THEN [pad_t_ |-> 0, pad_b_ |-> 0, pad_l_ |-> 0, pad_r_ |-> 0,
          stride_h_ |-> 1, stride_w_ |-> 1]
    ELSE g

\* lines 169-175: the message of the first check that fails, or "ok"
PdescCheckPadding(param, k, g) ==
    IF g.pad_t_ # 0 \/ g.pad_l_ # 0
    THEN IF ~(param.pool_type = kAvgPooling \/ param.pool_type = kMaxPooling)
         THEN "Padding implemented only for average and max pooling."
         ELSE IF ~(g.pad_l_ < k.kernel_w_) THEN "Check failed: pad_l_ < kernel_w_"
         ELSE IF ~(g.pad_t_ < k.kernel_h_) THEN "Check failed: pad_t_ < kernel_h_"
         ELSE "ok"
    ELSE "ok"

GetPoolingFwdPdesc(param, is_train, data_md, out_md) ==
    IF Len(param.kernel) # 2 THEN Fatal("Not Implemented") ELSE
    LET k == PdescKernel(param, data_md) IN
    IF ~(k.kernel_h_ > 0) \/ ~(k.kernel_w_ > 0)
    THEN Fatal("Filter dimensions cannot be zero.") ELSE
    LET g == PdescGlobalPool(param, PdescPadding(param, data_md, k))
        checked == PdescCheckPadding(param, k, g)
        algo == GetMKLDNNPoolAlgo(param)
    IN
    IF checked # "ok" THEN Fatal(checked)
    ELSE IF algo.status # "ok" THEN algo
    ELSE [status  |-> "ok",
          prop    |-> PdescPropKind(is_train, algo.alg),
          alg     |-> algo.alg,
          src_md  |-> data_md,
          dst_md  |-> out_md,
          strides |-> <<g.stride_h_, g.stride_w_>>,
          kernel  |-> <<k.kernel_h_, k.kernel_w_>>,
          pad_l   |-> <<g.pad_t_, g.pad_l_>>,
          pad_r   |-> <<g.pad_b_, g.pad_r_>>]

(***************************************************************************)
(* Signatures and the per-thread caches.                                   *)
(***************************************************************************)
\* The forward signature without the output tensor.
FwdSignature_NoOutput(param, is_train, with_workspace, data, output) ==
    <<param, is_train, with_workspace, data>>

\* MKLDNNPoolingSignature key(param); key.AddSign(...) x 4
FwdSignature(param, is_train, with_workspace, data, output) ==
    <<param, is_train, with_workspace, data, output>>

\* MKLDNNPoolingSignature key(param); key.AddSign(...) x 3
BwdSignature(param, in_data, in_grad, out_grad) ==
    <<param, in_data, in_grad, out_grad>>

end == "end"

\* A lookup that never finds the key.
CacheFind_AlwaysMiss(cache, key) == end

\* std::unordered_map::find: the key of the entry found, or end()
CacheFind(cache, key) == IF key \in DOMAIN cache THEN key ELSE end

\* AddToCache: insert the executor under the key
AddToCache(cache, key, value) == (key :> value) @@ cache

(***************************************************************************)
(* Forward resolve.                                                        *)
(***************************************************************************)
\* lines 219-226: the effective kernel
FwdKernel(param, data_md) ==
    IF param.global_pool
    THEN [kernel_h_ |-> data_md.dims[3], kernel_w_ |-> data_md.dims[4]]
    ELSE [kernel_h_ |-> param.kernel[1], kernel_w_ |-> param.kernel[2]]

\* lines 231-238: paddings and strides as configured; under the full
\* convention the trailing paddings come from the calculator
FwdPadding(param, data_md, kernel) ==
    LET pad_t_ == param.pad[1]
        pad_b_ == param.pad[1]
        pad_l_ == param.pad[2]
        pad_r_ == param.pad[2]
        stride_h_ == param.stride[1]
        stride_w_ == param.stride[2]
    IN  [pad_t_ |-> pad_t_,
         pad_b_ |-> IF param.pooling_convention = kFull
                    THEN GetPaddingSizeFull(data_md.dims[3], pad_t_, pad_b_,
                                            kernel.kernel_h_, stride_h_)
                    ELSE pad_b_,
         pad_l_ |-> pad_l_,
         pad_r_ |-> IF param.pooling_convention = kFull
                    THEN GetPaddingSizeFull(data_md.dims[4], pad_l_, pad_r_,
                                            kernel.kernel_w_, stride_w_)
                    ELSE pad_r_,
         stride_h_ |-> stride_h_,
         stride_w_ |-> stride_w_]

\* lines 240-243: global pooling has no padding and stride 1
FwdGlobalPool(param, g) ==
    IF param.global_pool
    THEN [pad_t_ |-> 0, pad_b_ |-> 0, pad_l_ |-> 0, pad_r_ |-> 0,
          stride_h_ |-> 1, stride_w_ |-> 1]
    ELSE g

\* lines 245-251: the message of the first check that fails, or "ok"
FwdCheckPadding(param, k, g) ==
    IF g.pad_t_ # 0 \/ g.pad_l_ # 0
    THEN IF ~(param.pool_type = kAvgPooling \/ param.pool_type = kMaxPooling)
         THEN "Padding implemented only for average and max pooling."
         ELSE IF ~(g.pad_l_ < k.kernel_w_) THEN "Check failed: pad_l_ < kernel_w_"
         ELSE IF ~(g.pad_t_ < k.kernel_h_) THEN "Check failed: pad_t_ < kernel_h_"
         ELSE "ok"
    ELSE "ok"

GetPoolingFwd(cache, id, param, is_train, data, output) ==
    LET with_workspace == is_train /\ MKLDNNRequireWorkspace(param)
        key == FwdSignature(param, is_train, with_workspace, data, output)
        it  == CacheFind(cache, key)
        Abort(msg) == [status |-> "fatal", msg |-> msg, hit |-> FALSE,
                       key |-> key, cache |-> cache]
    IN
    IF it # end
    THEN [status |-> "ok", hit |-> TRUE, key |-> key, cache |-> cache,
          exec |-> cache[it]]
    ELSE
    IF Len(param.kernel) # 2 THEN Abort("Not Implemented") ELSE
    LET data_md == GetDesc(data)
        k == FwdKernel(param, data_md)
    IN
    IF ~(k.kernel_h_ > 0) \/ ~(k.kernel_w_ > 0)
    THEN Abort("Filter dimensions cannot be zero.") ELSE
    LET g == FwdGlobalPool(param, FwdPadding(param, data_md, k))
        checked == FwdCheckPadding(param, k, g)
        algo == GetMKLDNNPoolAlgo(param)
        \* MKLDNNPoolingFwd fwd(data, output, ..., alg, with_workspace, is_train)
        init == MKLDNNPoolingFwd_Init(data, output, k.kernel_h_, k.kernel_w_,
                                      g.stride_h_, g.stride_w_,
                                      g.pad_t_, g.pad_b_, g.pad_l_, g.pad_r_,
                                      is_train, algo.alg)
        fwd  == [id |-> id, with_workspace_ |-> with_workspace,
                 fwd_pd_ |-> init.fwd_pd_, fwd_ |-> init.fwd_]
    IN
    IF checked # "ok" THEN Abort(checked)
    ELSE IF algo.status # "ok" THEN Abort(algo.msg)
    ELSE IF init.status # "ok" THEN Abort(init.msg)
    ELSE [status |-> "ok", hit |-> FALSE, key |-> key,
          cache |-> AddToCache(cache, key, fwd), exec |-> fwd]

(***************************************************************************)
(* Backward resolve.                                                       *)
(***************************************************************************)
\* lines 325-332: the effective kernel
BwdKernel(param, data_md) ==
    IF param.global_pool
    THEN [kernel_h_ |-> data_md.dims[3], kernel_w_ |-> data_md.dims[4]]
    ELSE [kernel_h_ |-> param.kernel[1], kernel_w_ |-> param.kernel[2]]

\* lines 334-341: paddings and strides as configured; under the full
\* convention the trailing paddings come from the calculator
BwdPadding(param, data_md, kernel) ==
    LET pad_t_ == param.pad[1]
        pad_b_ == param.pad[1]
        pad_l_ == param.pad[2]
        pad_r_ == param.pad[2]
        stride_h_ == param.stride[1]
        stride_w_ == param.stride[2]
    IN  [pad_t_ |-> pad_t_,
         pad_b_ |-> IF param.pooling_convention = kFull
                    THEN GetPaddingSizeFull(data_md.dims[3], pad_t_, pad_b_,
                                            kernel.kernel_h_, stride_h_)
                    ELSE pad_b_,
         pad_l_ |-> pad_l_,
         pad_r_ |-> IF param.pooling_convention = kFull
                    THEN GetPaddingSizeFull(data_md.dims[4], pad_l_, pad_r_,
                                            kernel.kernel_w_, stride_w_)
                    ELSE pad_r_,
         stride_h_ |-> stride_h_,
         stride_w_ |-> stride_w_]

\* The global-pooling reset left out.
BwdGlobalPool_Skip(param, g) == g

\* lines 343-346: global pooling has no padding and stride 1
BwdGlobalPool(param, g) ==
    IF param.global_pool
    THEN [pad_t_ |-> 0, pad_b_ |-> 0, pad_l_ |-> 0, pad_r_ |-> 0,
          stride_h_ |-> 1, stride_w_ |-> 1]
    ELSE g

GetPoolingBwd(cache, id, param, in_data, in_grad, out_grad) ==
    LET with_workspace == MKLDNNRequireWorkspace(param)
        key == BwdSignature(param, in_data, in_grad, out_grad)
        it  == CacheFind(cache, key)
        Abort(msg) == [status |-> "fatal", msg |-> msg, hit |-> FALSE,
                       key |-> key, cache |-> cache]
    IN
    IF it # end
    THEN [status |-> "ok", hit |-> TRUE, key |-> key, cache |-> cache,
          exec |-> cache[it]]
    ELSE
    LET diff_dst_buff == IF ~IsMKLDNNData(in_data) /\ IsMKLDNNData(out_grad)
                         THEN Reorder2Default(out_grad) ELSE out_grad
        data_md == GetDesc(in_data)
        out_md  == [dims |-> <<data_md.dims[1], data_md.dims[2],
                               out_grad.shape[3], out_grad.shape[4]>>,
                    data_type |-> data_md.data_type, format |-> "any"]
        fwd_pd  == GetPoolingFwdPdesc(param, TRUE, data_md, out_md)
        diff_md == GetDesc(diff_dst_buff)
        diff_in_md == [dims |-> <<diff_md.dims[1], diff_md.dims[2],
                                  in_grad.shape[3], in_grad.shape[4]>>,
                       data_type |-> diff_md.data_type, format |-> "any"]
        algo == GetMKLDNNPoolAlgo(param)
    IN
    IF fwd_pd.status # "ok" THEN Abort(fwd_pd.msg)
    ELSE IF algo.status # "ok" THEN Abort(algo.msg)
    ELSE
    LET k == BwdKernel(param, data_md)
        g == BwdGlobalPool(param, BwdPadding(param, data_md, k))
        pdesc == [alg |-> algo.alg, diff_src_md |-> diff_in_md, diff_dst_md |-> diff_md,
                  strides |-> <<g.stride_h_, g.stride_w_>>,
                  kernel  |-> <<k.kernel_h_, k.kernel_w_>>,
                  pad_l   |-> <<g.pad_t_, g.pad_l_>>,
                  pad_r   |-> <<g.pad_b_, g.pad_r_>>,
                  hint    |-> fwd_pd]
        \* MKLDNNPoolingBwd bwd(pdesc, with_workspace)
        bwd == [id |-> id, with_workspace |-> with_workspace, pd |-> pdesc, bwd |-> TRUE]
    IN [status |-> "ok", hit |-> FALSE, key |-> key,
        cache |-> AddToCache(cache, key, bwd), exec |-> bwd]

(***************************************************************************)
(* Execution.                                                              *)
(***************************************************************************)
nullptr == "nullptr"

RegisterPrimArgs(args) == [ev |-> "RegisterPrimArgs", args |-> args]
CommitOutput == [ev |-> "CommitOutput"]
Submit == [ev |-> "Submit"]
CreateMKLDNNMem(req) == [ev |-> "CreateMKLDNNMem", req |-> req]

\* Execute without the workspace check: a missing workspace is left out of
\* the argument set.
MKLDNNPoolingFwd_Execute_NoCheck(fwd, in_data, req, out_data, workspace) ==
    LET args == {"MKLDNN_ARG_SRC", "MKLDNN_ARG_DST"} \cup
                (IF fwd.with_workspace_ /\ workspace # nullptr
                 THEN {"MKLDNN_ARG_WORKSPACE"} ELSE {})
    IN [status |-> "ok",
        backend |-> <<CreateMKLDNNMem(req), RegisterPrimArgs(args), CommitOutput, Submit>>]

\* MKLDNNPoolingFwd::Execute. The events are the calls made on the output
\* memory and on the backend stream, in order.  The reorder of a view input
\* to the default layout (lines 80-82) changes which buffer is the source
\* argument, not the argument set, and leaves no event.
MKLDNNPoolingFwd_Execute(fwd, in_data, req, out_data, workspace) ==
    LET args0 == {"MKLDNN_ARG_SRC", "MKLDNN_ARG_DST"}
        args  == IF fwd.with_workspace_ THEN args0 \cup {"MKLDNN_ARG_WORKSPACE"} ELSE args0
    IN
    IF fwd.with_workspace_ /\ workspace = nullptr
    THEN [status |-> "fatal", msg |-> "MKLDNN Pooling: incorrect workspace input",
          backend |-> <<CreateMKLDNNMem(req)>>]
    ELSE IF fwd.fwd_
    THEN [status |-> "ok",
          backend |-> <<CreateMKLDNNMem(req), RegisterPrimArgs(args), CommitOutput, Submit>>]
    ELSE [status |-> "fatal", msg |-> "MKLDNN Pooling: forward primitive is nullptr",
          backend |-> <<CreateMKLDNNMem(req)>>]

\* MKLDNNPoolingGradCompute after the resolve, lines 368-381: the workspace
\* argument is added only when one is required and supplied; there is no
\* check for a required workspace that is missing.
MKLDNNPoolingGradCompute_Run(bwd, param, out_grad, workspace, req, in_grad) ==
    LET args0 == {"MKLDNN_ARG_DIFF_DST", "MKLDNN_ARG_DIFF_SRC"}
        args  == IF MKLDNNRequireWorkspace(param) /\ workspace # nullptr
                 THEN args0 \cup {"MKLDNN_ARG_WORKSPACE"} ELSE args0
    IN [status |-> "ok",
        backend |-> <<CreateMKLDNNMem(req), RegisterPrimArgs(args), CommitOutput, Submit>>]

NoCall == [op |-> "none"]
NoRet == [op |-> "none"]

Threads == {1, 2}
EmptyCaches == [t \in Threads |-> <<>>]

TotalBuilt == Cardinality(UNION {{<<t, e>> : e \in built[t]} : t \in Threads})

\* The identity of the next executor constructed on thread t.
NextId(t) == <<t, Cardinality(built[t]) + 1>>

\* resolved: the resolve returned an executor (exec)
ResolveRet(op, r) ==
    IF r.status = "ok"
    THEN [op |-> op, status |-> "ok", msg |-> "", resolved |-> TRUE, hit |-> r.hit,
          exec |-> r.exec, backend |-> <<>>]
    ELSE [op |-> op, status |-> "fatal", msg |-> r.msg, resolved |-> FALSE,
          hit |-> FALSE, backend |-> <<>>]

Built(t, cachename, r) ==
    IF r.status = "ok" /\ ~r.hit
    THEN [built EXCEPT ![t] = @ \cup {<<cachename, r.key, r.exec.id>>}]
    ELSE built

BuildAllowed(r) == (r.status = "ok" /\ ~r.hit) => TotalBuilt < MaxBuilds

(***************************************************************************)
(* The operations, as called on thread t.                                  *)
(***************************************************************************)
DoGetPoolingFwd(t, param, is_train, data, output) ==
    LET r == GetPoolingFwd(pooling_fwds[t], NextId(t), param, is_train, data, output)
    IN  /\ BuildAllowed(r)
        /\ call' = [op |-> "GetPoolingFwd", thread |-> t, param |-> param,
                    is_train |-> is_train, data |-> data, output |-> output]
        /\ ret' = ResolveRet("GetPoolingFwd", r)
        /\ pooling_fwds' = [pooling_fwds EXCEPT ![t] = r.cache]
        /\ built' = Built(t, "pooling_fwds", r)
        /\ UNCHANGED pooling_bwds

DoGetPoolingBwd(t, param, in_data, in_grad, out_grad) ==
    LET r == GetPoolingBwd(pooling_bwds[t], NextId(t), param, in_data, in_grad, out_grad)
    IN  /\ BuildAllowed(r)
        /\ call' = [op |-> "GetPoolingBwd", thread |-> t, param |-> param,
                    in_data |-> in_data, in_grad |-> in_grad, out_grad |-> out_grad]
        /\ ret' = ResolveRet("GetPoolingBwd", r)
        /\ pooling_bwds' = [pooling_bwds EXCEPT ![t] = r.cache]
        /\ built' = Built(t, "pooling_bwds", r)
        /\ UNCHANGED pooling_fwds

DoGetPoolingFwdPdesc(t, param, is_train, data, output) ==
    LET pd == GetPoolingFwdPdesc(param, is_train, GetDesc(data), GetDesc(output))
    IN  /\ call' = [op |-> "GetPoolingFwdPdesc", thread |-> t, param |-> param,
                    is_train |-> is_train, data |-> data, output |-> output]
        /\ ret' = [op |-> "GetPoolingFwdPdesc", status |-> pd.status,
                   msg |-> IF pd.status = "ok" THEN "" ELSE pd.msg, pd |-> pd]
        /\ UNCHANGED <<pooling_fwds, pooling_bwds, built>>

\* MKLDNNPoolingCompute: resolve, then execute
DoMKLDNNPoolingCompute(t, param, is_train, in_data, req, out_data, workspace) ==
    LET r == GetPoolingFwd(pooling_fwds[t], NextId(t), param, is_train, in_data, out_data)
        e == MKLDNNPoolingFwd_Execute(r.exec, in_data, req, out_data, workspace)
    IN  /\ BuildAllowed(r)
        /\ call' = [op |-> "MKLDNNPoolingCompute", thread |-> t, param |-> param,
                    is_train |-> is_train, data |-> in_data, output |-> out_data,
                    req |-> req, workspace |-> workspace]
        /\ ret' = IF r.status # "ok"
                  THEN ResolveRet("MKLDNNPoolingCompute", r)
                  ELSE [op |-> "MKLDNNPoolingCompute", status |-> e.status,
                        msg |-> IF e.status = "ok" THEN "" ELSE e.msg,
                        resolved |-> TRUE, hit |-> r.hit, exec |-> r.exec, backend |-> e.backend]
        /\ pooling_fwds' = [pooling_fwds EXCEPT ![t] = r.cache]
        /\ built' = Built(t, "pooling_fwds", r)
        /\ UNCHANGED pooling_bwds

\* MKLDNNPoolingGradCompute: nothing for kNullOp; else resolve, then run
DoMKLDNNPoolingGradCompute(t, param, out_grad, in_data, workspace, req, in_grad) ==
    LET r == GetPoolingBwd(pooling_bwds[t], NextId(t), param, in_data, in_grad, out_grad)
        e == MKLDNNPoolingGradCompute_Run(r.exec, param, out_grad, workspace, req, in_grad)
        c == [op |-> "MKLDNNPoolingGradCompute", thread |-> t, param |-> param,
              in_data |-> in_data, in_grad |-> in_grad, out_grad |-> out_grad,
              req |-> req, workspace |-> workspace]
    IN  IF req = kNullOp
        THEN /\ call' = c
             /\ ret' = [op |-> "MKLDNNPoolingGradCompute", status |-> "ok", msg |-> "",
                        resolved |-> FALSE, hit |-> FALSE, backend |-> <<>>]
             /\ UNCHANGED <<pooling_fwds, pooling_bwds, built>>
        ELSE /\ BuildAllowed(r)
             /\ call' = c
             /\ ret' = IF r.status # "ok"
                       THEN ResolveRet("MKLDNNPoolingGradCompute", r)
                       ELSE [op |-> "MKLDNNPoolingGradCompute", status |-> e.status,
                             msg |-> "", resolved |-> TRUE, hit |-> r.hit, exec |-> r.exec,
                             backend |-> e.backend]
             /\ pooling_bwds' = [pooling_bwds EXCEPT ![t] = r.cache]
             /\ built' = Built(t, "pooling_bwds", r)
             /\ UNCHANGED pooling_fwds

(***************************************************************************)
(* Spec: worker threads calling the entry points and the resolves.         *)
(***************************************************************************)
PoolingParam(kernel, stride, pad, pool_type, convention, global_pool, cip) ==
    [kernel |-> kernel, stride |-> stride, pad |-> pad, pool_type |-> pool_type,
     pooling_convention |-> convention, global_pool |-> global_pool,
     count_include_pad |-> cip]

\* max pooling 2x2/2, valid; average pooling 2x2/2, full; a padding as
\* large as the kernel, which the validation rejects.
MaxValid == PoolingParam(<<2, 2>>, <<2, 2>>, <<0, 0>>, kMaxPooling, kValid, FALSE, "none")
AvgFull  == PoolingParam(<<2, 2>>, <<2, 2>>, <<0, 0>>, kAvgPooling, kFull, FALSE, "none")
BadPad   == PoolingParam(<<1, 1>>, <<1, 1>>, <<1, 1>>, kMaxPooling, kValid, FALSE, "none")

CallParams == {MaxValid, AvgFull, BadPad}

\* <<param, is_train>> of the forward calls
ForwardCalls == {<<MaxValid, TRUE>>, <<MaxValid, FALSE>>, <<AvgFull, TRUE>>, <<BadPad, TRUE>>}

CallData == NDArray(1, 1, 5, 5, "nchw")
CallOutputs == {NDArray(1, 1, 2, 2, "nchw"), NDArray(1, 1, 3, 3, "nchw")}
CallOutGrad == NDArray(1, 1, 2, 2, "nchw")
\* const NDArray *workspace: null, or the address of the workspace tensor
Workspaces == {nullptr, "&workspace"}
Reqs == {kNullOp, kWriteTo}

Init ==
    /\ call = NoCall
    /\ ret = NoRet
    /\ pooling_fwds = EmptyCaches
    /\ pooling_bwds = EmptyCaches
    /\ built = [t \in Threads |-> {}]

CallMKLDNNPoolingCompute ==
    \E t \in Threads, fc \in ForwardCalls, out_data \in CallOutputs,
       workspace \in Workspaces :
        DoMKLDNNPoolingCompute(t, fc[1], fc[2], CallData, kWriteTo, out_data, workspace)

CallMKLDNNPoolingGradCompute ==
    \E t \in Threads, param \in CallParams, workspace \in Workspaces, req \in Reqs :
        DoMKLDNNPoolingGradCompute(t, param, CallOutGrad, CallData, workspace, req, CallData)

Next ==
    \/ CallMKLDNNPoolingCompute
    \/ CallMKLDNNPoolingGradCompute

Spec == Init /\ [][Next]_vars

(***************************************************************************)
(* SpecGeom: each derivation applied to every request in the bounds, on a  *)
(* thread whose caches are empty.                                          *)
(***************************************************************************)
KernelShapes ==
    {<<h, w>> : h \in 0..MaxKernel, w \in 0..MaxKernel} \cup {<<h>> : h \in 1..MaxKernel}

PoolKinds ==
    {<<kMaxPooling, "none">>, <<kAvgPooling, "none">>, <<kAvgPooling, "true">>,
     <<kAvgPooling, "false">>, <<kSumPooling, "none">>}

GeomParams ==
    {PoolingParam(kernel, <<sh, sw>>, <<ph, pw>>, pk[1], conv, gp, pk[2]) :
        kernel \in KernelShapes, sh \in 1..MaxStride, sw \in 1..MaxStride,
        ph \in 0..MaxPad, pw \in 0..MaxPad, pk \in PoolKinds,
        conv \in {kValid, kFull}, gp \in BOOLEAN}

GeomOutput == NDArray(1, 1, 1, 1, "nchw")

InitGeom ==
    /\ call \in {[op |-> "request", thread |-> 1, param |-> param, is_train |-> is_train,
                  data |-> NDArray(1, 1, h, w, "nchw"), output |-> GeomOutput] :
                    param \in GeomParams, is_train \in BOOLEAN,
                    h \in 1..MaxExtent, w \in 1..MaxExtent}
    /\ ret = NoRet
    /\ pooling_fwds = EmptyCaches
    /\ pooling_bwds = EmptyCaches
    /\ built = [t \in Threads |-> {}]

GeomGetPoolingFwd ==
    /\ call.op = "request"
    /\ DoGetPoolingFwd(call.thread, call.param, call.is_train, call.data, call.output)

GeomGetPoolingFwdPdesc ==
    /\ call.op = "request"
    /\ DoGetPoolingFwdPdesc(call.thread, call.param, call.is_train, call.data, call.output)

GeomGetPoolingBwd ==
    /\ call.op = "request"
    /\ DoGetPoolingBwd(call.thread, call.param, call.data, call.data, call.output)

NextGeom ==
    \/ GeomGetPoolingFwd
    \/ GeomGetPoolingFwdPdesc
    \/ GeomGetPoolingBwd

SpecGeom == InitGeom /\ [][NextGeom]_vars

(***************************************************************************)
(* Properties of the geometry derivations (SpecGeom).                      *)
(***************************************************************************)
ForwardOps  == {"GetPoolingFwd", "MKLDNNPoolingCompute"}
BackwardOps == {"GetPoolingBwd", "MKLDNNPoolingGradCompute"}

\* the input tensor of the call
CallInput == IF call.op \in BackwardOps THEN call.in_data ELSE call.data

\* the plan descriptor the call produced
RetPlan ==
    CASE ret.op \in ForwardOps -> ret.exec.fwd_pd_
      [] ret.op = "GetPoolingFwdPdesc" -> ret.pd
      [] ret.op \in BackwardOps -> ret.exec.pd

HasPlan ==
    \/ ret.op \in ForwardOps \cup BackwardOps /\ ret.resolved
    \/ ret.op = "GetPoolingFwdPdesc" /\ ret.status = "ok"

GeometryOf(pd) ==
    [kernel |-> pd.kernel, strides |-> pd.strides, pad_l |-> pd.pad_l, pad_r |-> pd.pad_r]

DerivationDone ==
    ret.op \in {"GetPoolingFwd", "GetPoolingFwdPdesc", "GetPoolingBwd"}

\* C2: with global_pool set, whatever kernel, stride, pad and convention are
\* configured and whatever the input shape, the forward resolve, the forward
\* descriptor and the backward resolve complete with kernel = (H, W),
\* stride = (1, 1) and all four paddings 0.  (PoolingParams as the operator
\* receives them: a 2-d kernel, max or average pooling.)
C2_GlobalPoolGeometry ==
    (/\ DerivationDone
     /\ call.param.global_pool
     /\ Len(call.param.kernel) = 2
     /\ call.param.pool_type \in {kMaxPooling, kAvgPooling}) =>
        /\ ret.status = "ok"
        /\ GeometryOf(RetPlan) =
             [kernel  |-> <<CallInput.shape[3], CallInput.shape[4]>>,
              strides |-> <<1, 1>>, pad_l |-> <<0, 0>>, pad_r |-> <<0, 0>>]

\* C2 witness: the backward resolve built a global-pooling plan from
\* parameters whose configured padding is not below the configured kernel,
\* whose stride is not 1 and whose convention is full.
C2_Witness ==
    /\ ret.op = "GetPoolingBwd"
    /\ ret.status = "ok"
    /\ call.param.global_pool
    /\ call.param.pooling_convention = kFull
    /\ call.param.pad[1] >= call.param.kernel[1]
    /\ call.param.pad[1] > 0
    /\ call.param.stride[2] > 1
    /\ call.param.kernel # <<CallInput.shape[3], CallInput.shape[4]>>
    /\ ret.exec.pd.kernel = <<CallInput.shape[3], CallInput.shape[4]>>

AnyPadding(pd) ==
    pd.pad_l[1] # 0 \/ pd.pad_l[2] # 0 \/ pd.pad_r[1] # 0 \/ pd.pad_r[2] # 0

\* C6: whenever descriptor construction succeeds (forward resolve miss or
\* GetPoolingFwdPdesc) with a non-zero effective padding, every effective
\* padding, leading (top, left) and trailing (bottom, right), is strictly
\* less than the effective kernel extent on its axis.  Lines 169-175 and
\* 245-251 test pad_t_ and pad_l_ only, so a trailing padding enlarged by
\* the full convention reaches the kernel in a plan that is built.
C6_PaddingBelowKernel ==
    (/\ ret.op \in {"GetPoolingFwd", "GetPoolingFwdPdesc"}
     /\ HasPlan
     /\ AnyPadding(RetPlan)) =>
        /\ RetPlan.pad_l[1] < RetPlan.kernel[1]
        /\ RetPlan.pad_l[2] < RetPlan.kernel[2]
        /\ RetPlan.pad_r[1] < RetPlan.kernel[1]
        /\ RetPlan.pad_r[2] < RetPlan.kernel[2]

\* What the forward resolve does with the request of a backward call, on an
\* empty cache.
ForwardOfCall(is_train) ==
    GetPoolingFwd(<<>>, <<0, 0>>, call.param, is_train, call.in_data, call.out_grad)

\* C9: whenever the backward resolve builds a plan, its (kernel, stride,
\* pad-low, pad-high) is the one GetPoolingFwdPdesc derived for the forward
\* hint and the one the forward resolve derives for the same params and input
\* shape, and the forward validation accepts the combination.
C9_BackwardMirrorsForward ==
    (ret.op = "GetPoolingBwd" /\ ret.status = "ok") =>
        /\ GeometryOf(ret.exec.pd) = GeometryOf(ret.exec.pd.hint)
        /\ \A is_train \in BOOLEAN :
              /\ ForwardOfCall(is_train).status = "ok"
              /\ GeometryOf(ret.exec.pd) = GeometryOf(ForwardOfCall(is_train).exec.fwd_pd_)

\* C9 witness: a backward plan whose trailing padding was enlarged by the
\* full convention.
C9_Witness ==
    /\ ret.op = "GetPoolingBwd"
    /\ ret.status = "ok"
    /\ ~call.param.global_pool
    /\ call.param.pooling_convention = kFull
    /\ ret.exec.pd.pad_r[1] > ret.exec.pd.pad_l[1]
    /\ ret.exec.pd.pad_l[2] > 0

\* C10: a training forward plan is built in training mode for max pooling
\* and in inference mode for average pooling (count_include_pad unset, true
\* or false); a non-training plan is built in inference mode; Init and
\* GetPoolingFwdPdesc select the same mode.
C10_PropagationMode ==
    (ret.op \in {"GetPoolingFwd", "GetPoolingFwdPdesc"} /\ HasPlan) =>
        /\ RetPlan.prop =
             IF call.is_train /\ call.param.pool_type = kMaxPooling
             THEN forward_training ELSE forward_scoring
        /\ InitPropKind(call.is_train, RetPlan.alg) = PdescPropKind(call.is_train, RetPlan.alg)

(***************************************************************************)
(* Properties of the caches and of execution (Spec).                       *)
(***************************************************************************)
BackendEvents(r) == {r.backend[i].ev : i \in DOMAIN r.backend}

BackendCalled(r) ==
    BackendEvents(r) \cap {"RegisterPrimArgs", "CommitOutput", "Submit"} # {}

\* C4: a forward call with max pooling, training and a null workspace fails
\* fatally (MissingResourceError) with nothing registered, committed or
\* submitted; with a workspace it registers {source, destination, workspace},
\* commits the output and submits.
C4_ForwardWorkspace ==
    (/\ call.op = "MKLDNNPoolingCompute"
     /\ call.param.pool_type = kMaxPooling
     /\ call.is_train) =>
        /\ call.workspace = nullptr =>
              /\ ret.status = "fatal"
              /\ ~BackendCalled(ret)
              /\ ret.resolved => ErrorKind(ret.msg) = "MissingResourceError"
        /\ (call.workspace # nullptr /\ ret.resolved) =>
              /\ ret.status = "ok"
              /\ ret.backend = <<CreateMKLDNNMem(call.req),
                                 RegisterPrimArgs({"MKLDNN_ARG_SRC", "MKLDNN_ARG_DST",
                                                   "MKLDNN_ARG_WORKSPACE"}),
                                 CommitOutput, Submit>>

\* C4 witness: the executor was resolved and Execute stopped on the null
\* workspace.
C4_Witness ==
    /\ call.op = "MKLDNNPoolingCompute"
    /\ call.param.pool_type = kMaxPooling
    /\ call.is_train
    /\ call.workspace = nullptr
    /\ ret.resolved
    /\ ret.exec.with_workspace_
    /\ ret.status = "fatal"

\* C5: a backward call for max pooling with a write policy other than
\* kNullOp and a null workspace ends with a fatal MissingResourceError and
\* never reaches the backend.
C5_BackwardWorkspace ==
    (/\ call.op = "MKLDNNPoolingGradCompute"
     /\ call.param.pool_type = kMaxPooling
     /\ call.req # kNullOp
     /\ call.workspace = nullptr
     /\ ret.resolved) =>
        /\ ret.status = "fatal"
        /\ ErrorKind(ret.msg) = "MissingResourceError"
        /\ ~BackendCalled(ret)

SameRequest(c, d) ==
    /\ c.param = d.param
    /\ c.is_train = d.is_train
    /\ c.data = d.data
    /\ c.output = d.output

OnlyOutputDiffers(c, d) ==
    /\ c.param = d.param
    /\ c.is_train = d.is_train
    /\ c.data = d.data
    /\ c.output # d.output

\* C3: of two successive forward resolves on one thread, the second returns
\* the same executor instance without building anything when its (params,
\* is_training, input, output) are identical, and a distinct executor when
\* only the output descriptor differs.
C3_CacheIdempotence ==
    [][(/\ call.op \in ForwardOps
        /\ call'.op \in ForwardOps
        /\ call'.thread = call.thread
        /\ ret.resolved
        /\ ret'.resolved) =>
          /\ SameRequest(call, call') =>
                /\ ret'.exec = ret.exec
                /\ ret'.hit
                /\ built' = built
                /\ pooling_fwds' = pooling_fwds
          /\ OnlyOutputDiffers(call, call') => ret'.exec.id # ret.exec.id]_vars

\* C3 witness: a hit on a thread whose cache holds executors for both
\* output descriptors of the same request.
C3_Witness ==
    /\ call.op \in ForwardOps
    /\ ret.resolved
    /\ ret.hit
    /\ \E k \in DOMAIN pooling_fwds[call.thread] :
          /\ k[1] = call.param /\ k[2] = call.is_train /\ k[4] = call.data
          /\ k[5] # call.output

CacheOf(name) == IF name = "pooling_fwds" THEN pooling_fwds ELSE pooling_bwds

\* the signature of the call's resolve
CallKey ==
    IF call.op \in ForwardOps
    THEN <<call.param, call.is_train, call.is_train /\ call.param.pool_type = kMaxPooling,
           call.data, call.output>>
    ELSE <<call.param, call.in_data, call.in_grad, call.out_grad>>

CallCache == IF call.op \in ForwardOps THEN pooling_fwds ELSE pooling_bwds

CachesMatchBuilds ==
    \A t \in Threads : \A name \in {"pooling_fwds", "pooling_bwds"} :
        /\ DOMAIN CacheOf(name)[t] = {e[2] : e \in {b \in built[t] : b[1] = name}}
        /\ \A e1, e2 \in built[t] : (e1[1] = e2[1] /\ e1[2] = e2[2]) => e1 = e2
        /\ \A e \in built[t] : e[1] = name => CacheOf(name)[t][e[2]].id = e[3]

AbortInsertsNothing ==
    (call.op \in ForwardOps \cup BackwardOps /\ ret.status = "fatal" /\ ~ret.resolved) =>
        CallKey \notin DOMAIN CallCache[call.thread]

CacheStep ==
    \A t \in Threads :
        /\ t # call'.thread =>
              pooling_fwds'[t] = pooling_fwds[t] /\ pooling_bwds'[t] = pooling_bwds[t]
        /\ \A k \in DOMAIN pooling_fwds[t] :
              k \in DOMAIN pooling_fwds'[t] /\ pooling_fwds'[t][k] = pooling_fwds[t][k]
        /\ \A k \in DOMAIN pooling_bwds[t] :
              k \in DOMAIN pooling_bwds'[t] /\ pooling_bwds'[t][k] = pooling_bwds[t][k]

\* C7: in every interleaving of resolves by the worker threads each thread's
\* cache holds exactly one executor per signature resolved on that thread
\* and nothing else: built at most once per signature per thread, never
\* removed or replaced, nothing inserted by a resolve that aborts, and no
\* change to another thread's cache.
C7_CachePerThread ==
    /\ [](CachesMatchBuilds /\ AbortInsertsNothing)
    /\ [][CacheStep]_vars

\* C7 witness: both threads hold an executor for the same signature, each
\* its own, and the last call was a hit.
C7_Witness ==
    /\ ret.op \in ForwardOps \cup BackwardOps
    /\ ret.resolved
    /\ ret.hit
    /\ \E k \in DOMAIN pooling_fwds[1] :
          /\ k \in DOMAIN pooling_fwds[2]
          /\ pooling_fwds[1][k].id # pooling_fwds[2][k].id

(***************************************************************************)
(* SpecPad: the padding calculator applied to every input in the bounds.   *)
(***************************************************************************)
PadInputs ==
    [op : {"GetPaddingSizeFull"}, x : 0..PadMaxX, padl : 0..PadMaxPad,
     padr : 0..PadMaxPad, k : 1..PadMaxKernel, s : 1..PadMaxStride]

InitPad ==
    /\ call \in PadInputs
    /\ ret = NoRet
    /\ pooling_fwds = EmptyCaches
    /\ pooling_bwds = EmptyCaches
    /\ built = [t \in Threads |-> {}]

CallGetPaddingSizeFull ==
    /\ call.op = "GetPaddingSizeFull"
    /\ ret.op = "none"
    /\ ret' = [op |-> "GetPaddingSizeFull",
               value |-> GetPaddingSizeFull(call.x, call.padl, call.padr, call.k, call.s)]
    /\ UNCHANGED <<call, pooling_fwds, pooling_bwds, built>>

NextPad == CallGetPaddingSizeFull

SpecPad == InitPad /\ [][NextPad]_vars

PadDone == call.op = "GetPaddingSizeFull" /\ ret.op = "GetPaddingSizeFull"

\* C1: for x, padl, padr >= 0, k > 0, s > 0 the calculator's result padr'
\* is at least padr and makes x + padl + padr' - k a multiple of s, also
\* when x + padl + padr < k (negative dividend).
C1_PaddingAligned ==
    PadDone =>
        /\ ret.value >= call.padr
        /\ (call.x + call.padl + ret.value - call.k) % call.s = 0
        /\ CRem(call.x + call.padl + ret.value - call.k, call.s) = 0

\* C1 witness: a negative dividend whose remainder is not zero was padded.
C1_Witness ==
    /\ PadDone
    /\ call.x + call.padl + call.padr < call.k
    /\ CRem(call.x + call.padl + call.padr - call.k, call.s) < 0
    /\ ret.value > call.padr

\* The pooling windows of extent k at offsets 0, s, 2s, ... that lie within
\* a padded axis of length len.
WindowOffsets(len, k, s) == {o \in 0..len : o % s = 0 /\ o + k <= len}

InputCovered(x, padl, len, k, s) ==
    \A i \in padl..(padl + x - 1) :
        \E o \in WindowOffsets(len, k, s) : o <= i /\ i < o + k

LastWindowAtEnd(len, k, s) ==
    \E o \in WindowOffsets(len, k, s) : o + k = len

PaddedLen == call.x + call.padl + ret.value

\* C8 as stated: for all x >= 1, padl, padr >= 0, k > 0, s > 0 the windows
\* cover every input element and the last window ends at the end of the axis.
C8_CoverageAllInputs ==
    (PadDone /\ call.x >= 1) =>
        /\ InputCovered(call.x, call.padl, PaddedLen, call.k, call.s)
        /\ LastWindowAtEnd(PaddedLen, call.k, call.s)

\* C8 amended: when the kernel fits in the configured padded axis
\* (x + padl + padr >= k) and the stride does not exceed the kernel
\* (s <= k), the windows cover every input element and the last window
\* ends exactly at the end of the padded axis.
C8_CoverageKernelFits ==
    (PadDone /\ call.x >= 1 /\ call.x + call.padl + call.padr >= call.k
             /\ call.s <= call.k) =>
        /\ InputCovered(call.x, call.padl, PaddedLen, call.k, call.s)
        /\ LastWindowAtEnd(PaddedLen, call.k, call.s)

\* C8 witness: trailing elements that the valid convention would drop are
\* covered by a window reaching into the added padding.
C8_Witness ==
    /\ PadDone
    /\ call.x >= 1
    /\ call.x + call.padl + call.padr >= call.k
    /\ call.s <= call.k
    /\ call.s > 1
    /\ ret.value > call.padr
    /\ InputCovered(call.x, call.padl, PaddedLen, call.k, call.s)

====
